---- MODULE Spec2Model ----
(***************************************************************************)
(* egui_inspect: the EguiInspect derive (egui_inspect_derive) and the      *)
(* runtime behaviour of the implementation it generates.                   *)
(*                                                                         *)
(* A derive input is a struct (named, tuple or unit fields), an enum       *)
(* (unit, struct-like or tuple-like variants) or a union.  The generator   *)
(* produces two token streams, the bodies of inspect and inspect_mut.  A   *)
(* token stream is a sequence of tokens; quote!() is the empty sequence    *)
(* and an Option<TokenStream> is None or a stream.  The attributes name,   *)
(* slider, min, max and multiline only select label text and widget        *)
(* parameters; they are read after the points modelled here and are not    *)
(* part of the field records.                                              *)
(***************************************************************************)
EXTENDS Integers, Sequences, FiniteSets, TLC

VARIABLES data, pc, impl, value, last

vars == <<data, pc, impl, value, last>>

\* Bounds of the inputs.
MaxFields == 2
MaxVariants == 2
MaxVariantFields == 1

(***************************************************************************)
(* Inputs: syn's DeriveInput.data with darling's AttributeArgs per field   *)
(***************************************************************************)

\* AttributeArgs: custom_func / custom_func_mut are TRUE for Some(path).
\* ty tells whether the field's type is one the built-in paths recognize.
AttributeArgs ==
    [hide : BOOLEAN, no_edit : BOOLEAN, custom_func : BOOLEAN,
     custom_func_mut : BOOLEAN, ty : {"recognized", "other"}]

\* A field: its ident (0 for the None of a tuple field) and its attributes.
MkField(id, a) ==
    [ident |-> id, hide |-> a.hide, no_edit |-> a.no_edit,
     custom_func |-> a.custom_func, custom_func_mut |-> a.custom_func_mut,
     ty |-> a.ty]

Shapes == {"Named", "Unnamed", "Unit"}

\* syn::Fields of a shape with the attributes as[1], as[2], .. of its fields.
\* A named field's ident is its position; a unit shape has no fields.
Fields(shape, as) ==
    [shape |-> shape,
     list |-> [i \in 1..Len(as) |->
                 MkField(IF shape = "Named" THEN i ELSE 0, as[i])]]

UnitFields == Fields("Unit", <<>>)

StructInput(shape, as) ==
    [kind |-> "Struct", fields |-> Fields(shape, as), variants |-> <<>>]

RECURSIVE Sum(_, _)
Sum(counts, n) == IF n = 0 THEN 0 ELSE counts[n] + Sum(counts, n - 1)

\* An enum of Len(shapes) variants; variant j has shape shapes[j] and the
\* next counts[j] of the attribute records as.
EnumInput(shapes, counts, as) ==
    [kind |-> "Enum", fields |-> UnitFields,
     variants |-> [j \in 1..Len(shapes) |->
        [ident |-> j,
         fields |-> Fields(shapes[j],
                           SubSeq(as, Sum(counts, j - 1) + 1, Sum(counts, j)))]]]

UnionInput == [kind |-> "Union", fields |-> UnitFields, variants |-> <<>>]

\* The derive inputs: structs of at most MaxFields fields, enums of at most
\* MaxVariants variants holding at most MaxVariantFields fields in all, a union.
IsInput(d) ==
    \/ \E n \in 0..MaxFields : \E shape \in Shapes :
         /\ shape = "Unit" => n = 0
         /\ \E as \in [1..n -> AttributeArgs] : d = StructInput(shape, as)
    \/ \E n \in 1..MaxVariants :
         \E shapes \in [1..n -> Shapes], counts \in [1..n -> 0..MaxVariantFields] :
            /\ Sum(counts, n) <= MaxVariantFields
            /\ \A j \in 1..n : shapes[j] = "Unit" => counts[j] = 0
            /\ \E as \in [1..Sum(counts, n) -> AttributeArgs] :
                  d = EnumInput(shapes, counts, as)
    \/ d = UnionInput

(***************************************************************************)
(* Token streams                                                           *)
(***************************************************************************)

None == <<>>

Some(tok) == <<tok>>

RECURSIVE Concat(_)
Concat(ss) == IF ss = <<>> THEN <<>> ELSE Head(ss) \o Concat(Tail(ss))

\* A statement that hands one field to a function.
\*   fn   : the function called
\*   field: the member, <<"ident", name>> or <<"index", i>> of a tuple field
\*   ref  : "&" / "&mut" written in the call, "auto" for a method call
\*   base : "self" for self.<field>, "loose" for the bare identifier
Call(fn, ref, base, field, label) ==
    [k |-> "call", fn |-> fn, ref |-> ref, base |-> base, field |-> field,
     label |-> label]

Strong == [k |-> "strong"]

\* A result of code that may hit unimplemented!().
Ok(ts) == [ok |-> TRUE, ts |-> ts]

Panic == [ok |-> FALSE, ts |-> <<>>]

(***************************************************************************)
(* The generator (egui_inspect_derive)                                     *)
(***************************************************************************)

\* name_str: attrs.name, or else the field's ident.
NameStr(field) == <<"name", field.ident>>

\* #name of a named field.
Member(field) == <<"ident", field.ident>>

\* handle_custom_func with the mode test of its first branch dropped: the
\* mutable callback is chosen whenever one is given.
handle_custom_func_any_mode(field, mutable) ==
    IF ~field.no_edit /\ field.custom_func_mut
    THEN Some(Call("custom_func_mut", "&mut", "self", Member(field), NameStr(field)))
    ELSE IF (~mutable \/ (mutable /\ field.no_edit)) /\ field.custom_func
    THEN Some(Call("custom_func", "&", "self", Member(field), NameStr(field)))
    ELSE None

handle_custom_func(field, mutable) ==
    IF mutable /\ ~field.no_edit /\ field.custom_func_mut
    THEN Some(Call("custom_func_mut", "&mut", "self", Member(field), NameStr(field)))
    ELSE IF (~mutable \/ (mutable /\ field.no_edit)) /\ field.custom_func
    THEN Some(Call("custom_func", "&", "self", Member(field), NameStr(field)))
    ELSE None

\* internal_paths::try_handle_internal_path: the built-in specialization for
\* recognized primitive/container shapes, in the mode it is asked for.
try_handle_internal_path(field, mutable) ==
    IF field.ty = "recognized"
    THEN Some(Call("internal", IF mutable THEN "&mut" ELSE "&", "self",
                   Member(field), NameStr(field)))
    ELSE None

get_default_function_call(field, mutable, loose_field) ==
    LET base == IF loose_field THEN "loose" ELSE "self"
    IN  IF mutable
        THEN <<Call("inspect_mut", "auto", base, Member(field), NameStr(field))>>
        ELSE <<Call("inspect", "auto", base, Member(field), NameStr(field))>>

handle_named_field(f, mutable, loose) ==
    IF f.hide THEN <<>>
    ELSE LET m == mutable /\ ~f.no_edit
             custom == handle_custom_func(f, m)
             internal == try_handle_internal_path(f, m)
         IN  IF custom # None THEN custom
             ELSE IF internal # None THEN internal
             ELSE get_default_function_call(f, m, loose)

handle_named_fields(list, mutable) ==
    <<Strong>>
    \o Concat([i \in 1..Len(list) |-> handle_named_field(list[i], mutable, FALSE)])

\* The enumerate() index i is i - 1 here: sequences start at 1.
handle_unnamed_fields(list, mutable) ==
    <<Strong>>
    \o [i \in 1..Len(list) |->
          Call("inspect", IF mutable THEN "&mut" ELSE "&", "self", <<"index", i - 1>>,
               <<"Field", i - 1>>)]

handle_fields(fields, mutable) ==
    CASE fields.shape = "Named" -> handle_named_fields(fields.list, mutable)
      [] fields.shape = "Unnamed" -> handle_unnamed_fields(fields.list, mutable)
      [] fields.shape = "Unit" -> <<>>

\* A match arm: the pattern's shape and the variant's name.
variant_name_arm(variant) ==
    [variant |-> variant.ident, pattern |-> variant.fields.shape]

\* ui.selectable_value(self, <variant with Default::default() per field>, ..):
\* defaults lists the fields the constructed value initializes.
variant_combo(variant) ==
    [k |-> "selectable_value", variant |-> variant.ident,
     defaults |-> [i \in 1..Len(variant.fields.list) |->
                      IF variant.fields.shape = "Named"
                      THEN Member(variant.fields.list[i])
                      ELSE <<"index", i - 1>>]]

variant_inspect_arm(variant) ==
    CASE variant.fields.shape = "Named" ->
           Ok(<<[k |-> "arm", variant |-> variant.ident,
                 binds |-> [i \in 1..Len(variant.fields.list) |->
                              Member(variant.fields.list[i])],
                 body |-> Concat([i \in 1..Len(variant.fields.list) |->
                              handle_named_field(variant.fields.list[i], TRUE, TRUE)])]>>)
      [] variant.fields.shape = "Unnamed" -> Panic
      [] variant.fields.shape = "Unit" ->
           Ok(<<[k |-> "arm", variant |-> variant.ident, binds |-> <<>>,
                 body |-> <<>>]>>)

handle_enum(variants, mutable) ==
    LET name_arms == [i \in 1..Len(variants) |-> variant_name_arm(variants[i])]
        reflect_variant_name == [k |-> "current_variant", arms |-> name_arms]
        combo_opts == [i \in 1..Len(variants) |-> variant_combo(variants[i])]
        inspect_arms == [i \in 1..Len(variants) |-> variant_inspect_arm(variants[i])]
    IN  IF mutable
        THEN IF \E i \in 1..Len(variants) : ~inspect_arms[i].ok
             THEN Panic
             ELSE Ok(<<reflect_variant_name,
                       [k |-> "combo", opts |-> combo_opts],
                       [k |-> "match",
                        arms |-> Concat([i \in 1..Len(variants) |-> inspect_arms[i].ts])]>>)
        ELSE Ok(<<reflect_variant_name, [k |-> "label"]>>)

inspect_struct(d, mutable) ==
    CASE d.kind = "Struct" -> Ok(handle_fields(d.fields, mutable))
      [] d.kind = "Enum" -> handle_enum(d.variants, mutable)
      [] d.kind = "Union" -> Panic

(***************************************************************************)
(* The generated implementation at run time                                *)
(***************************************************************************)

\* A value of the deriving type: the variant it is (0 for a struct) and one
\* cell per field, 0 being the field's Default::default().
Defaults(n) == [i \in 1..n |-> 0]

InitialValue(d) ==
    CASE d.kind = "Struct" -> [variant |-> 0, fields |-> Defaults(Len(d.fields.list))]
      [] d.kind = "Enum" ->
           [variant |-> 1, fields |-> Defaults(Len(d.variants[1].fields.list))]
      [] d.kind = "Union" -> [variant |-> 0, fields |-> <<>>]

\* The cell a member names.
Slot(member) == IF member[1] = "index" THEN member[2] + 1 ELSE member[2]

\* EguiInspect::inspect takes &self and inspect_mut takes &mut self; a
\* custom_func is given a shared reference and a custom_func_mut a mutable
\* one.  Only a callee holding a mutable reference can change the field.
Mutates(tok) ==
    \/ tok.fn \in {"custom_func_mut", "inspect_mut"}
    \/ tok.fn = "internal" /\ tok.ref = "&mut"

Edit(val, slot) == [val EXCEPT !.fields[slot] = 1 - @]

\* The values one statement can leave behind when the user acts on its widget.
RECURSIVE Effect(_, _)
Effect(tok, val) ==
    CASE tok.k = "call" ->
           IF Mutates(tok) THEN {val, Edit(val, Slot(tok.field))} ELSE {val}
      [] tok.k = "combo" ->
           {val} \cup {[variant |-> tok.opts[i].variant,
                        fields |-> Defaults(Len(tok.opts[i].defaults))] :
                          i \in 1..Len(tok.opts)}
      [] tok.k = "match" ->
           {val} \cup UNION {UNION {Effect(tok.arms[a].body[b], val) :
                                      b \in 1..Len(tok.arms[a].body)} :
                               a \in {x \in 1..Len(tok.arms) :
                                        tok.arms[x].variant = val.variant}}
      [] OTHER -> {val}

\* One frame: the body runs once and the user acts on at most one widget.
Frame(ts, val) == {val} \cup UNION {Effect(ts[i], val) : i \in 1..Len(ts)}

(***************************************************************************)
(* The state machine                                                       *)
(***************************************************************************)

Init ==
    /\ IsInput(data)
    /\ pc = "input"
    /\ impl = [inspect |-> <<>>, inspect_mut |-> <<>>]
    /\ value = InitialValue(data)
    /\ last = "none"

\* #[derive(EguiInspect)]: both bodies are generated, then the impl is emitted;
\* an unimplemented!() in either aborts the expansion.
derive_egui_inspect ==
    /\ pc = "input"
    /\ LET inspect == inspect_struct(data, FALSE)
           inspect_mut == inspect_struct(data, TRUE)
       IN  IF inspect.ok /\ inspect_mut.ok
           THEN /\ pc' = "expanded"
                /\ impl' = [inspect |-> inspect.ts, inspect_mut |-> inspect_mut.ts]
           ELSE /\ pc' = "panicked"
                /\ impl' = impl
    /\ UNCHANGED <<data, value, last>>

\* A frame that calls the generated inspect(&self, ..).
Inspect ==
    /\ pc = "expanded"
    /\ value' \in Frame(impl.inspect, value)
    /\ last' = "inspect"
    /\ UNCHANGED <<data, pc, impl>>

\* A frame that calls the generated inspect_mut(&mut self, ..).
InspectMut ==
    /\ pc = "expanded"
    /\ value' \in Frame(impl.inspect_mut, value)
    /\ last' = "inspect_mut"
    /\ UNCHANGED <<data, pc, impl>>

Next == derive_egui_inspect \/ Inspect \/ InspectMut

Spec == Init /\ [][Next]_vars

(***************************************************************************)
(* Reading the generated bodies                                            *)
(***************************************************************************)

\* The fields of the input a claim speaks of: the variant that holds the
\* field (0 for a struct), the member the generated code names it by, and
\* the field itself.
NamedSites(d) ==
    {[variant |-> 0, member |-> Member(d.fields.list[i]), f |-> d.fields.list[i]] :
        i \in {x \in 1..Len(d.fields.list) :
                 d.kind = "Struct" /\ d.fields.shape = "Named"}}
    \cup UNION {
        {[variant |-> d.variants[j].ident,
          member |-> Member(d.variants[j].fields.list[i]),
          f |-> d.variants[j].fields.list[i]] :
            i \in {x \in 1..Len(d.variants[j].fields.list) :
                     d.variants[j].fields.shape = "Named"}}
        : j \in 1..Len(d.variants)}

TupleSites(d) ==
    {[variant |-> 0, member |-> <<"index", i - 1>>, f |-> d.fields.list[i]] :
        i \in {x \in 1..Len(d.fields.list) :
                 d.kind = "Struct" /\ d.fields.shape = "Unnamed"}}

\* The statements of a body that run for a variant: the body itself for a
\* struct, the bodies of the variant's match arms for an enum.
ArmBodies(arms, variant) ==
    Concat([a \in 1..Len(arms) |->
              IF arms[a].variant = variant THEN arms[a].body ELSE <<>>])

Body(ts, variant) ==
    IF variant = 0 THEN ts
    ELSE Concat([i \in 1..Len(ts) |->
                   IF ts[i].k = "match" THEN ArmBodies(ts[i].arms, variant)
                   ELSE <<>>])

IsHandlerOf(tok, member) == tok.k = "call" /\ tok.field = member

\* The field handlers a body holds for a site, in order.
Handlers(ts, site) ==
    SelectSeq(Body(ts, site.variant), LAMBDA tok : IsHandlerOf(tok, site.member))

Fns(ts, site) ==
    {Handlers(ts, site)[i].fn : i \in 1..Len(Handlers(ts, site))}

\* The body generated for a mode.
BodyOf(mutable) == IF mutable THEN impl.inspect_mut ELSE impl.inspect

\* The handler the priority order names for a field in a mode: the custom
\* callback that applies to the effective mode, else the built-in
\* specialization of a recognized type, else the field's own inspect /
\* inspect_mut.
PriorityFn(f, mutable) ==
    LET m == mutable /\ ~f.no_edit
    IN  IF m /\ f.custom_func_mut THEN "custom_func_mut"
        ELSE IF ~m /\ f.custom_func THEN "custom_func"
        ELSE IF f.ty = "recognized" THEN "internal"
        ELSE IF m THEN "inspect_mut" ELSE "inspect"

(***************************************************************************)
(* Claims                                                                  *)
(***************************************************************************)

\* C1: every named field that is not hidden gets, in inspect and in
\* inspect_mut alike, exactly one field handler, and it is the one the
\* priority order names: custom callback of the effective mode, else the
\* built-in specialization, else the field's own inspect / inspect_mut.
C1_OneHandlerByPriority ==
    pc = "expanded" =>
      \A site \in NamedSites(data) : \A mutable \in BOOLEAN :
         ~site.f.hide =>
           /\ Len(Handlers(BodyOf(mutable), site)) = 1
           /\ Fns(BodyOf(mutable), site) = {PriorityFn(site.f, mutable)}

\* The bodies that walk their named fields: both bodies of a struct, and
\* inspect_mut of an enum (the arms of its match).
Walked(site, mutable) == site.variant = 0 \/ mutable

\* Where a body walks its named fields, the priority order of C1 holds: one
\* handler per field that is not hidden, the one PriorityFn names.
PriorityWhereWalked ==
    pc = "expanded" =>
      \A site \in NamedSites(data) : \A mutable \in BOOLEAN :
         (~site.f.hide /\ Walked(site, mutable)) =>
           /\ Len(Handlers(BodyOf(mutable), site)) = 1
           /\ Fns(BodyOf(mutable), site) = {PriorityFn(site.f, mutable)}

\* The inspect body of an enum holds no field handler at all.
EnumInspectShowsNoField ==
    (pc = "expanded" /\ data.kind = "Enum") =>
      \A site \in NamedSites(data) : Handlers(impl.inspect, site) = <<>>

\* C2: a field annotated with hide has no statement handling it in inspect
\* or in inspect_mut, whatever its other attributes, in a named-field struct,
\* a tuple struct and a struct-like enum variant alike.
C2_HiddenFieldGeneratesNothing ==
    pc = "expanded" =>
      \A site \in NamedSites(data) \cup TupleSites(data) : \A mutable \in BOOLEAN :
         site.f.hide => Handlers(BodyOf(mutable), site) = <<>>

\* Hidden named fields, of structs and of struct-like variants, have no
\* handler in either body.
HiddenNamedFieldGeneratesNothing ==
    pc = "expanded" =>
      \A site \in NamedSites(data) : \A mutable \in BOOLEAN :
         site.f.hide => Handlers(BodyOf(mutable), site) = <<>>

\* C3: for a named field annotated with no_edit, inspect_mut holds no
\* handler that can change the field (no custom_func_mut, no inspect_mut, no
\* mutable built-in), and handles the field exactly as inspect does.
C3_NoEditIsHandledAsInInspect ==
    pc = "expanded" =>
      \A site \in NamedSites(data) :
         site.f.no_edit =>
           /\ \A i \in 1..Len(Handlers(impl.inspect_mut, site)) :
                 ~Mutates(Handlers(impl.inspect_mut, site)[i])
           /\ Handlers(impl.inspect_mut, site) = Handlers(impl.inspect, site)

\* No handler of inspect_mut can change a named field annotated with no_edit.
NoEditIsNeverMutated ==
    pc = "expanded" =>
      \A site \in NamedSites(data) :
         site.f.no_edit =>
           \A i \in 1..Len(Handlers(impl.inspect_mut, site)) :
              ~Mutates(Handlers(impl.inspect_mut, site)[i])

\* C4: for a named field that is not hidden, custom_func_mut is emitted,
\* with a mutable reference, exactly in inspect_mut of a field without
\* no_edit that sets it, and custom_func, with a shared reference, exactly
\* where the effective mode is read-only (inspect, or inspect_mut of a
\* no_edit field) and the field sets it.
C4_CustomCallbackByMode ==
    pc = "expanded" =>
      \A site \in NamedSites(data) : \A mutable \in BOOLEAN :
         ~site.f.hide =>
           LET hs == Handlers(BodyOf(mutable), site)
               readonly == ~mutable \/ site.f.no_edit
           IN  /\ ("custom_func_mut" \in Fns(BodyOf(mutable), site))
                    <=> (~readonly /\ site.f.custom_func_mut)
               /\ ("custom_func" \in Fns(BodyOf(mutable), site))
                    <=> (readonly /\ site.f.custom_func)
               /\ \A i \in 1..Len(hs) :
                    /\ hs[i].fn = "custom_func_mut" => hs[i].ref = "&mut"
                    /\ hs[i].fn = "custom_func" => hs[i].ref = "&"

\* C5: the expansion yields an implementation for every struct and every
\* enum, whatever its variants, and aborts only for a union.
C5_OnlyUnionsAbort ==
    pc # "input" => (pc = "panicked" <=> data.kind = "Union")

\* C6: for a tuple struct, inspect_mut calls the editable operation
\* inspect_mut on every field i with label "Field i" and inspect calls the
\* read-only operation inspect with the same label.
C6_TupleStructIsEditable ==
    pc = "expanded" =>
      \A site \in TupleSites(data) :
         /\ Len(Handlers(impl.inspect_mut, site)) = 1
         /\ Len(Handlers(impl.inspect, site)) = 1
         /\ Handlers(impl.inspect_mut, site)[1].fn = "inspect_mut"
         /\ Handlers(impl.inspect, site)[1].fn = "inspect"
         /\ Handlers(impl.inspect_mut, site)[1].label = <<"Field", site.member[2]>>
         /\ Handlers(impl.inspect, site)[1].label = <<"Field", site.member[2]>>

\* Every statement of a body, those of the match arms included.
AllStatements(ts) ==
    ts \o Concat([i \in 1..Len(ts) |->
                    IF ts[i].k = "match"
                    THEN Concat([a \in 1..Len(ts[i].arms) |-> ts[i].arms[a].body])
                    ELSE <<>>])

\* A statement that cannot change the value: no combo box, and no call that
\* is a custom_func_mut, an inspect_mut or takes a mutable reference.
ReadOnly(tok) ==
    /\ tok.k \notin {"combo", "selectable_value"}
    /\ tok.k = "call" =>
         /\ tok.fn \notin {"custom_func_mut", "inspect_mut"}
         /\ tok.ref # "&mut"

\* Every statement of the emitted inspect is read-only, and so is every
\* statement of the inspect body generated for the input, whether or not the
\* expansion then goes on to emit an implementation.
InspectIsReadOnly ==
    /\ pc = "expanded" =>
         \A i \in 1..Len(AllStatements(impl.inspect)) :
            ReadOnly(AllStatements(impl.inspect)[i])
    /\ \A i \in 1..Len(AllStatements(inspect_struct(data, FALSE).ts)) :
          ReadOnly(AllStatements(inspect_struct(data, FALSE).ts)[i])

\* C7: the generated inspect is read-only for every shape and every
\* combination of attributes: it holds no custom_func_mut call, no
\* inspect_mut call, no mutable reference to a field and no combo box, and a
\* frame that calls inspect leaves the inspected value unchanged.
C7_InspectNeverMutates ==
    /\ []InspectIsReadOnly
    /\ [][last' = "inspect" => value' = value]_vars

\* C7 witness: an implementation whose inspect handles a field that sets
\* custom_func_mut, called after inspect_mut has changed the value.
C7_Witness ==
    /\ pc = "expanded"
    /\ last = "inspect"
    /\ value # InitialValue(data)
    /\ \E site \in NamedSites(data) :
          /\ site.f.custom_func_mut /\ ~site.f.hide /\ ~site.f.no_edit
          /\ Len(Handlers(impl.inspect, site)) = 1

====
